---------------------------- MODULE Spec2Model ----------------------------
(***************************************************************************)
(* A-level Results Dashboard (src/app.py).                                 *)
(*                                                                         *)
(* The module prepares the data frame df_table once (lines 7-26) and then  *)
(* serves two callbacks, update_table (lines 115-144) and                  *)
(* update_line_chart (lines 156-192), each a request/response cycle over   *)
(* the prepared frame.                                                     *)
(*                                                                         *)
(* Representation.  A string the code takes apart (a CSV cell, a           *)
(* time_period, a column name) is handled through its pieces; every other  *)
(* string is a TLA+ string.  A float is an exact rational                  *)
(* [num |-> n, den |-> d] in lowest terms with d > 0; the missing value    *)
(* NaN is [num |-> 0, den |-> 0].  Floating-point rounding is not          *)
(* modelled.  A data-frame row is a function from column name to value, a  *)
(* data frame is the sequence of its rows.                                 *)
(***************************************************************************)
EXTENDS Integers, Sequences, FiniteSets, TLC

VARIABLES
    pc,         \* "startup" before lines 7-26 have run, "serving" after
    csv,        \* the rows of the remote CSV resource read at line 7
    df_table,   \* the module-level data frame
    request,    \* the callback invocation in flight, or NoRequest
    response    \* what that invocation returned (or that it raised)

vars == <<pc, csv, df_table, request, response>>

---------------------------------------------------------------------------
(* Bounds of the model                                                     *)

MaxRows == 2            \* rows of a generated CSV
MaxSubjects == 2        \* length of a subject selection

---------------------------------------------------------------------------
(* Generic helpers                                                         *)

Range(s) == {s[i] : i \in DOMAIN s}

Abs(n) == IF n < 0 THEN -n ELSE n

RECURSIVE GCD(_, _)
GCD(a, b) == IF b = 0 THEN a ELSE GCD(b, a % b)

\* s.split(sep).join: the pieces of a name joined by "_"
RECURSIVE Join(_)
Join(tokens) ==
    IF Len(tokens) = 1 THEN tokens[1]
    ELSE tokens[1] \o "_" \o Join(Tail(tokens))

\* sorted(S) for a finite set of integers
RECURSIVE Sorted(_)
Sorted(S) ==
    IF S = {} THEN <<>>
    ELSE LET m == CHOOSE x \in S : \A y \in S : x <= y
         IN  <<m>> \o Sorted(S \ {m})

---------------------------------------------------------------------------
(* Floats                                                                  *)

NaN == [num |-> 0, den |-> 0]

IsNaN(v) == v.den = 0

Rat(n, d) ==
    LET g == GCD(Abs(n), d)
    IN  [num |-> n \div g, den |-> d \div g]

Float(n) == Rat(n, 1)

\* a / b and a * b of floats; NaN propagates
FDiv(a, b) ==
    IF IsNaN(a) \/ IsNaN(b) \/ b.num = 0 THEN NaN
    ELSE IF b.num > 0 THEN Rat(a.num * b.den, a.den * b.num)
    ELSE Rat(-(a.num * b.den), a.den * (-b.num))

FMul(a, b) ==
    IF IsNaN(a) \/ IsNaN(b) THEN NaN
    ELSE Rat(a.num * b.num, a.den * b.den)

FAdd(a, b) ==
    IF IsNaN(a) \/ IsNaN(b) THEN NaN
    ELSE Rat(a.num * b.den + b.num * a.den, a.den * b.den)

---------------------------------------------------------------------------
(* Text of the CSV: a cell is the sequence of its characters               *)

DigitChars == <<"0", "1", "2", "3", "4", "5", "6", "7", "8", "9">>

IsDigit(ch) == \E i \in DOMAIN DigitChars : DigitChars[i] = ch

DigitValue(ch) == (CHOOSE i \in DOMAIN DigitChars : DigitChars[i] = ch) - 1

RECURSIVE ParseInt(_)
ParseInt(chars) ==
    IF Len(chars) = 0 THEN 0
    ELSE 10 * ParseInt(SubSeq(chars, 1, Len(chars) - 1))
            + DigitValue(chars[Len(chars)])

\* str(n) for n >= 0, as characters
RECURSIVE StrChars(_)
StrChars(n) ==
    IF n < 10 THEN <<DigitChars[n + 1]>>
    ELSE StrChars(n \div 10) \o <<DigitChars[(n % 10) + 1]>>

\* pd.to_numeric(cell, errors='coerce'): a numeral parses, anything else
\* (the empty cell included) becomes NaN and nothing is raised
to_numeric(cell) ==
    IF Len(cell) > 0 /\ \A i \in DOMAIN cell : IsDigit(cell[i])
    THEN Float(ParseInt(cell))
    ELSE NaN

---------------------------------------------------------------------------
(* Column names                                                            *)

PercTokens ==
    << <<"perc", "astar", "grade", "achieved">>,
       <<"perc", "astar", "a", "grade", "achieved">>,
       <<"perc", "astar", "b", "grade", "achieved">>,
       <<"perc", "astar", "c", "grade", "achieved">>,
       <<"perc", "astar", "d", "grade", "achieved">>,
       <<"perc", "astar", "e", "grade", "achieved">> >>

percentage_columns == [i \in DOMAIN PercTokens |-> Join(PercTokens[i])]

\* col.split('_')
Split(col) == PercTokens[CHOOSE i \in DOMAIN PercTokens : Join(PercTokens[i]) = col]

\* f"abs_{col.split('_')[1]}_{col.split('_')[2]}_grade_achieved"
\* (Python indexes from 0, sequences here from 1)
AbsColName(col) ==
    "abs_" \o Split(col)[2] \o "_" \o Split(col)[3] \o "_grade_achieved"

abs_columns == [i \in DOMAIN percentage_columns |-> AbsColName(percentage_columns[i])]

---------------------------------------------------------------------------
(* The CSV resource                                                       *)

Subjects == {"Mathematics", "Physics"}

Characteristics == {"All Students", "Female"}

\* time_period values of a generated CSV: academic years 2019/20, 2020/21
TimePeriods == {201920, 202021}

\* entry_count and the text of the six percentage cells, astar .. astar_e;
\* <<"z">> is a suppression marker, <<>> an empty cell
Measures ==
    << [entry_count |-> 100,
        cells |-> << <<"1","0">>, <<"3","0">>, <<"5","0">>,
                     <<"7","0">>, <<"9","0">>, <<"9","9">> >>],
       [entry_count |-> 120,
        cells |-> << <<"1","2">>, <<"z">>, <<>>,
                     <<"7","5">>, <<"9","0">>, <<"1","0","0">> >>],
       [entry_count |-> 110,
        cells |-> << <<"1","1">>, <<"3","5">>, <<"z">>,
                     <<>>, <<"9","5">>, <<"9","8">> >>],
       [entry_count |-> 0,
        cells |-> << <<"z">>, <<>>, <<"0">>,
                     <<"5","0">>, <<"z">>, <<"z">> >>] >>

CsvColumns ==
    {"subject_name", "characteristic_value", "time_period", "entry_count"}
        \cup Range(percentage_columns)

\* the i-th row of a CSV: its key columns are free, its measures are those
\* of position i
CsvRow(i, subject, characteristic, period) ==
    LET m == Measures[((i - 1) % Len(Measures)) + 1]
    IN  [c \in CsvColumns |->
            CASE c = "subject_name" -> subject
              [] c = "characteristic_value" -> characteristic
              [] c = "time_period" -> period
              [] c = "entry_count" -> m.entry_count
              [] OTHER ->
                    m.cells[CHOOSE k \in DOMAIN percentage_columns :
                                percentage_columns[k] = c]]

RowKeys == Subjects \X Characteristics \X TimePeriods

\* The CSVs of up to MaxRows rows.  The code never looks at which subject
\* or characteristic a name is, so the first row is taken to be of
\* Mathematics and All Students; every other CSV is one of these with the
\* names exchanged.
GeneratedCsvs ==
    UNION {{[i \in 1..n |-> CsvRow(i, k[i][1], k[i][2], k[i][3])] :
                k \in {f \in [1..n -> RowKeys] :
                          n > 0 => f[1][1] = "Mathematics" /\ f[1][2] = "All Students"}} :
           n \in 0..MaxRows}

\* Mathematics, All Students, one row for each of 2019, 2020, 2021 with
\* entry_count 100/120/110 and perc_astar_grade_achieved 10/12/11
ExampleCsv ==
    << CsvRow(1, "Mathematics", "All Students", 201920),
       CsvRow(2, "Mathematics", "All Students", 202021),
       CsvRow(3, "Mathematics", "All Students", 202122) >>

Csvs == GeneratedCsvs \cup {ExampleCsv}

---------------------------------------------------------------------------
(* Dataset preparation, lines 7-26                                        *)

\* lines 10-12: time_period as a string and the year it starts with
WithYear(row) ==
    LET chars == StrChars(row["time_period"])
    IN  [c \in DOMAIN row \cup {"formatted_time_period", "start_year"} |->
            CASE c = "time_period" -> chars
              [] c = "formatted_time_period" ->
                    SubSeq(chars, 1, 4) \o <<"/">> \o SubSeq(chars, 5, Len(chars))
              [] c = "start_year" -> ParseInt(SubSeq(chars, 1, 4))
              [] OTHER -> row[c]]

\* line 26: (df_table[col] / 100) * df_table['entry_count']
AbsValueNoDiv(perc, entry_count) == FMul(perc, Float(entry_count))

AbsValue(perc, entry_count) ==
    FMul(FDiv(perc, Float(100)), Float(entry_count))

\* one pass of the loop of lines 23-26 over a row
PrepareColumn(row, col) ==
    LET numeric == to_numeric(row[col])
        abs_col_name == AbsColName(col)
    IN  [c \in DOMAIN row \cup {abs_col_name} |->
            IF c = abs_col_name THEN AbsValue(numeric, row["entry_count"])
            ELSE IF c = col THEN numeric
            ELSE row[c]]

RECURSIVE PrepareColumns(_, _)
PrepareColumns(row, i) ==
    IF i > Len(percentage_columns) THEN row
    ELSE PrepareColumns(PrepareColumn(row, percentage_columns[i]), i + 1)

PrepareRow(row) == PrepareColumns(WithYear(row), 1)

Prepare(rows) == [i \in DOMAIN rows |-> PrepareRow(rows[i])]

---------------------------------------------------------------------------
(* Callback arguments                                                     *)

\* the years a client can send: the dropdown options of lines 42 and 50,
\* the start years of the resource
YearArgs == {ParseInt(SubSeq(StrChars(row["time_period"]), 1, 4)) :
                row \in UNION {Range(c) : c \in Csvs}}

IndicatorTypes == {"percentage", "absolute"}

\* the JSON value of the subject dropdown: a list of subjects, or a bare
\* subject (items then holds that one value)
List(items) == [type |-> "list", items |-> items]

Bare(value) == [type |-> "str", items |-> <<value>>]

SubjectArgs ==
    {List(items) : items \in UNION {[1..n -> Subjects] : n \in 0..MaxSubjects}}
        \cup {Bare(s) : s \in Subjects}

\* isinstance(value, list)
IsList(value) == value.type = "list"

---------------------------------------------------------------------------
(* Data-frame operations used by the callbacks                            *)

\* the boolean mask of lines 118-121 and 163-166 for one row; subjects is
\* the list handed to isin
Mask(row, start_date, end_date, characteristic, subjects) ==
    /\ row["start_year"] >= start_date
    /\ row["start_year"] <= end_date
    /\ row["characteristic_value"] = characteristic
    /\ row["subject_name"] \in Range(subjects)

FilterNoRange(df, start_date, end_date, characteristic, subjects) ==
    LET keep(row) == /\ row["characteristic_value"] = characteristic
                     /\ row["subject_name"] \in Range(subjects)
    IN  SelectSeq(df, keep)

\* df[mask]: a new frame holding the rows the mask keeps
Filter(df, start_date, end_date, characteristic, subjects) ==
    LET keep(row) == Mask(row, start_date, end_date, characteristic, subjects)
    IN  SelectSeq(df, keep)

RECURSIVE SortedDescending(_)
SortedDescending(S) ==
    IF S = {} THEN <<>>
    ELSE LET m == CHOOSE x \in S : \A y \in S : x >= y
         IN  <<m>> \o SortedDescending(S \ {m})

GroupKeysDescending(df) == SortedDescending({df[i]["start_year"] : i \in DOMAIN df})

\* the keys of groupby('start_year'), sorted ascending
GroupKeys(df) == Sorted({df[i]["start_year"] : i \in DOMAIN df})

\* the rows of one group
Group(df, year) ==
    LET same(row) == row["start_year"] = year
    IN  SelectSeq(df, same)

\* a column of a frame as floats (entry_count is an integer column)
AsFloat(col, v) == IF col = "entry_count" THEN Float(v) ELSE v

RECURSIVE FSum(_)
FSum(values) ==
    IF Len(values) = 0 THEN Float(0) ELSE FAdd(values[1], FSum(Tail(values)))

\* Series.mean(): NaN values are skipped, the mean of none is NaN
MeanKeepNaN(values) ==
    FDiv(FSum(values), Float(Len(values)))

Mean(values) ==
    LET present(v) == ~IsNaN(v)
        kept == SelectSeq(values, present)
    IN  FDiv(FSum(kept), Float(Len(kept)))

ColumnMean(df, col) == Mean([i \in DOMAIN df |-> AsFloat(col, df[i][col])])

RECURSIVE ISum(_)
ISum(values) ==
    IF Len(values) = 0 THEN 0 ELSE values[1] + ISum(Tail(values))

\* Series.sum() of the integer column entry_count
ColumnSum(df) == ISum([i \in DOMAIN df |-> df[i]["entry_count"]])

\* column labels: a string, or an integer (a start_year)
StrLabel(s) == [kind |-> "str", s |-> s, i |-> 0]

IntLabel(i) == [kind |-> "int", s |-> "", i |-> i]

\* str(label)
LabelStr(label) == IF label.kind = "int" THEN ToString(label.i) ELSE label.s

---------------------------------------------------------------------------
(* update_table, lines 115-144                                            *)

\* lines 126-129
SelectedColumnsAlwaysPerc(indicator_type) == percentage_columns

SelectedColumnsReversed(indicator_type) ==
    LET n == Len(percentage_columns)
    IN  IF indicator_type = "percentage"
        THEN [i \in 1..n |-> percentage_columns[n + 1 - i]]
        ELSE [i \in 1..n |-> AbsColName(percentage_columns[n + 1 - i])]

SelectedColumns(indicator_type) ==
    IF indicator_type = "percentage"
    THEN percentage_columns
    ELSE [i \in DOMAIN percentage_columns |->
            AbsColName(percentage_columns[i])]

\* line 135: [['start_year'] + all_columns].groupby('start_year').mean()
\*           .T.reset_index(); a frame is its labels and its rows
Pivot(filtered_df, all_columns) ==
    LET years == GroupKeys(filtered_df)
    IN  [columns |-> <<StrLabel("index")>> \o [k \in DOMAIN years |-> IntLabel(years[k])],
         rows |-> [c \in DOMAIN all_columns |->
                    <<all_columns[c]>> \o
                    [k \in DOMAIN years |->
                        ColumnMean(Group(filtered_df, years[k]), all_columns[c])]]]

\* line 136: rename(columns={'index': 'Indicator'})
Rename(frame) ==
    [frame EXCEPT !.columns =
        [k \in DOMAIN frame.columns |->
            IF frame.columns[k] = StrLabel("index") THEN StrLabel("Indicator")
            ELSE frame.columns[k]]]

\* line 139: columns.map(str)
MapStr(frame) ==
    [columns |-> [k \in DOMAIN frame.columns |-> LabelStr(frame.columns[k])],
     rows |-> frame.rows]

\* line 144: to_dict('records')
ToRecords(frame) ==
    [r \in DOMAIN frame.rows |->
        [name \in Range(frame.columns) |->
            frame.rows[r][CHOOSE k \in DOMAIN frame.columns : frame.columns[k] = name]]]

Raised == [raised |-> TRUE]

update_table_inplace(df, start_date, end_date, indicator_type, selected_characteristic, selected_subject) ==
    IF ~IsList(selected_subject)
    THEN [df_table |-> df, out |-> Raised]
    ELSE
    LET filtered_df == Filter(df, start_date, end_date, selected_characteristic,
                              selected_subject.items)
        all_columns == <<"entry_count">> \o SelectedColumns(indicator_type)
        table_data == MapStr(Rename(Pivot(filtered_df, all_columns)))
    IN  [df_table |-> filtered_df,
         out |-> [raised |-> FALSE,
                  data |-> ToRecords(table_data),
                  columns |-> [k \in DOMAIN table_data.columns |->
                                 [name |-> table_data.columns[k],
                                  id |-> table_data.columns[k]]]]]

\* the callback: what it returns and the module-level frame it leaves.
\* Series.isin raises TypeError on an argument that is not list-like
\* (line 121), and the callback propagates it.
update_table(df, start_date, end_date, indicator_type, selected_characteristic, selected_subject) ==
    IF ~IsList(selected_subject)
    THEN [df_table |-> df, out |-> Raised]
    ELSE
    LET filtered_df == Filter(df, start_date, end_date, selected_characteristic,
                              selected_subject.items)
        base_columns == <<"entry_count">>
        selected_columns == SelectedColumns(indicator_type)
        all_columns == base_columns \o selected_columns
        table_data == MapStr(Rename(Pivot(filtered_df, all_columns)))
        table_columns == [k \in DOMAIN table_data.columns |->
                            [name |-> table_data.columns[k],
                             id |-> table_data.columns[k]]]
    IN  [df_table |-> df,
         out |-> [raised |-> FALSE,
                  data |-> ToRecords(table_data),
                  columns |-> table_columns]]

---------------------------------------------------------------------------
(* update_line_chart, lines 156-192                                       *)

\* lines 158-159
AsList(selected_subjects) ==
    IF ~IsList(selected_subjects) THEN List(selected_subjects.items)
    ELSE selected_subjects

TraceAllSubjects(filtered_df, subject, selected_characteristic) ==
    LET years == GroupKeys(filtered_df)
    IN  [x |-> years,
         y |-> [k \in DOMAIN years |-> ColumnSum(Group(filtered_df, years[k]))],
         type |-> "line",
         name |-> subject \o " (" \o selected_characteristic \o ")"]

\* lines 172-181: the trace of one subject
Trace(filtered_df, subject, selected_characteristic) ==
    LET is_subject(row) == row["subject_name"] = subject
        subject_df == SelectSeq(filtered_df, is_subject)
        years == GroupKeys(subject_df)
    IN  [x |-> years,
         y |-> [k \in DOMAIN years |-> ColumnSum(Group(subject_df, years[k]))],
         type |-> "line",
         name |-> subject \o " (" \o selected_characteristic \o ")"]

update_line_chart(df, start_date, end_date, selected_subjects, selected_characteristic) ==
    LET subjects == AsList(selected_subjects).items
        filtered_df == Filter(df, start_date, end_date, selected_characteristic,
                              subjects)
        data_traces == [k \in DOMAIN subjects |->
                          Trace(filtered_df, subjects[k], selected_characteristic)]
    IN  [df_table |-> df,
         out |-> [raised |-> FALSE,
                  figure |->
                    [data |-> data_traces,
                     layout |->
                       [title |-> "Entries Count Over Time for Selected Subjects ("
                                    \o selected_characteristic \o ")",
                        xaxis |-> [title |-> "Year"],
                        yaxis |-> [title |-> "Entry Count"],
                        template |-> "plotly_white"]]]]

---------------------------------------------------------------------------
(* The program                                                            *)

NoRequest == [op |-> "none"]

NoResponse == [raised |-> FALSE]

Init ==
    /\ pc = "startup"
    /\ csv \in Csvs
    /\ df_table = <<>>
    /\ request = NoRequest
    /\ response = NoResponse

\* module import: lines 7-26 run once
Load ==
    /\ pc = "startup"
    /\ pc' = "serving"
    /\ df_table' = Prepare(csv)
    /\ UNCHANGED <<csv, request, response>>

\* a client posts the inputs of the table callback (lines 104-114)
UpdateTable ==
    /\ pc = "serving"
    /\ request = NoRequest
    /\ \E start_date \in YearArgs, end_date \in YearArgs,
          indicator_type \in IndicatorTypes,
          selected_characteristic \in Characteristics,
          selected_subject \in SubjectArgs :
            LET r == update_table(df_table, start_date, end_date, indicator_type,
                                  selected_characteristic, selected_subject)
            IN  /\ request' = [op |-> "update_table",
                               start_date |-> start_date,
                               end_date |-> end_date,
                               indicator_type |-> indicator_type,
                               characteristic |-> selected_characteristic,
                               subjects |-> selected_subject]
                /\ response' = r.out
                /\ df_table' = r.df_table
    /\ UNCHANGED <<pc, csv>>

\* a client posts the inputs of the chart callback (lines 147-155)
UpdateLineChart ==
    /\ pc = "serving"
    /\ request = NoRequest
    /\ \E start_date \in YearArgs, end_date \in YearArgs,
          selected_subjects \in SubjectArgs,
          selected_characteristic \in Characteristics :
            LET r == update_line_chart(df_table, start_date, end_date,
                                       selected_subjects, selected_characteristic)
            IN  /\ request' = [op |-> "update_line_chart",
                               start_date |-> start_date,
                               end_date |-> end_date,
                               characteristic |-> selected_characteristic,
                               subjects |-> selected_subjects]
                /\ response' = r.out
                /\ df_table' = r.df_table
    /\ UNCHANGED <<pc, csv>>

\* the response leaves the server; the callback's locals are gone
Respond ==
    /\ request # NoRequest
    /\ request' = NoRequest
    /\ response' = NoResponse
    /\ UNCHANGED <<pc, csv, df_table>>

Next == Load \/ UpdateTable \/ UpdateLineChart \/ Respond

Spec == Init /\ [][Next]_vars

---------------------------------------------------------------------------
(* Properties                                                             *)

TableReturned == request.op = "update_table" /\ ~response.raised

ChartReturned == request.op = "update_line_chart" /\ ~response.raised

\* the filter predicate, stated on the request in flight: the indices of
\* the prepared rows with start_date <= start_year <= end_date, the
\* requested characteristic and a requested subject
Matching ==
    {i \in DOMAIN df_table :
        /\ request.start_date <= df_table[i]["start_year"]
        /\ df_table[i]["start_year"] <= request.end_date
        /\ df_table[i]["characteristic_value"] = request.characteristic
        /\ \E k \in DOMAIN request.subjects.items :
                request.subjects.items[k] = df_table[i]["subject_name"]}

MatchingYears == {df_table[i]["start_year"] : i \in Matching}

\* the year columns of the returned table
YearColumns == {response.columns[k].name : k \in DOMAIN response.columns} \ {"Indicator"}

EmptySelection == request.subjects = List(<<>>)

Inverted == request.start_date > request.end_date

EmptyResult ==
    IF request.op = "update_table"
    THEN /\ YearColumns = {}
         /\ \A r \in DOMAIN response.data : DOMAIN response.data[r] = {"Indicator"}
    ELSE \A k \in DOMAIN response.figure.data :
            /\ response.figure.data[k].x = <<>>
            /\ response.figure.data[k].y = <<>>

\* C1 (as claimed): no call ever raises, and a call with an empty subject
\* selection or with a start year after the end year returns an empty
\* result (no year column; no point in any series).
C1_NeverRaisesEmptyResult ==
    request # NoRequest =>
        /\ ~response.raised
        /\ (EmptySelection \/ Inverted) => EmptyResult

\* C2: every year column of the returned table is the start_year of a
\* prepared row that satisfies the filter predicate, so it lies in
\* [start_date, end_date].
C2_YearColumnsAreFiltered ==
    TableReturned =>
        /\ \A name \in YearColumns : \E y \in MatchingYears : name = ToString(y)
        /\ \A r \in DOMAIN response.data :
                DOMAIN response.data[r] = YearColumns \cup {"Indicator"}
        /\ \A y \in MatchingYears :
                request.start_date <= y /\ y <= request.end_date

\* a table with a year column, while a row of a requested subject and of
\* the requested characteristic lies outside the requested range
C2_Witness ==
    /\ TableReturned
    /\ YearColumns # {}
    /\ \E i \in DOMAIN df_table :
        /\ i \notin Matching
        /\ df_table[i]["characteristic_value"] = request.characteristic
        /\ df_table[i]["subject_name"] \in Range(request.subjects.items)

\* the value of column c in prepared row i, as a float
CellValue(i, c) ==
    IF c = "entry_count" THEN Float(df_table[i][c]) ELSE df_table[i][c]

RECURSIVE SumOfCells(_, _)
SumOfCells(S, c) ==
    IF S = {} THEN Float(0)
    ELSE LET i == CHOOSE j \in S : TRUE
         IN  FAdd(CellValue(i, c), SumOfCells(S \ {i}, c))

\* the matching rows of year y whose value of c is present
Present(y, c) ==
    {i \in Matching : df_table[i]["start_year"] = y /\ ~IsNaN(CellValue(i, c))}

ExampleRequest ==
    [op |-> "update_table", start_date |-> 2019, end_date |-> 2021,
     indicator_type |-> "percentage", characteristic |-> "All Students",
     subjects |-> List(<<"Mathematics">>)]

\* C3: each cell (indicator c, year y) of the returned table is the
\* arithmetic mean of c over the filtered rows of year y whose c is not
\* missing (missing when there is none); on the one-row-per-year example
\* the entry_count row is 100, 120, 110 and the perc_astar row 10, 12, 11
\* under "2019", "2020", "2021".
C3_CellsAreMeans ==
    TableReturned =>
        /\ \A r \in DOMAIN response.data : \A y \in MatchingYears :
            LET c == response.data[r]["Indicator"]
                cell == response.data[r][ToString(y)]
                rows == Present(y, c)
            IN  IF rows = {} THEN IsNaN(cell)
                ELSE /\ ~IsNaN(cell)
                     /\ FMul(cell, Float(Cardinality(rows))) = SumOfCells(rows, c)
        /\ (csv = ExampleCsv /\ request = ExampleRequest) =>
            /\ response.data[1] =
                 [n \in {"Indicator", "2019", "2020", "2021"} |->
                    CASE n = "Indicator" -> "entry_count"
                      [] n = "2019" -> Float(100)
                      [] n = "2020" -> Float(120)
                      [] n = "2021" -> Float(110)]
            /\ response.data[2] =
                 [n \in {"Indicator", "2019", "2020", "2021"} |->
                    CASE n = "Indicator" -> "perc_astar_grade_achieved"
                      [] n = "2019" -> Float(10)
                      [] n = "2020" -> Float(12)
                      [] n = "2021" -> Float(11)]

\* a cell whose year has two filtered rows, one with the value missing and
\* one with it present
C3_Witness ==
    /\ TableReturned
    /\ \E r \in DOMAIN response.data : \E y \in MatchingYears :
        LET c == response.data[r]["Indicator"]
        IN  /\ Cardinality(Present(y, c)) = 1
            /\ Cardinality({i \in Matching : df_table[i]["start_year"] = y}) = 2
            /\ ~IsNaN(response.data[r][ToString(y)])

RECURSIVE SumOfEntries(_)
SumOfEntries(S) ==
    IF S = {} THEN 0
    ELSE LET i == CHOOSE j \in S : TRUE
         IN  df_table[i]["entry_count"] + SumOfEntries(S \ {i})

\* the prepared rows of subject s and year y with the requested
\* characteristic and y in the requested range
RowsOf(s, y) ==
    {i \in DOMAIN df_table :
        /\ df_table[i]["subject_name"] = s
        /\ df_table[i]["start_year"] = y
        /\ df_table[i]["characteristic_value"] = request.characteristic
        /\ request.start_date <= y /\ y <= request.end_date}

\* C4: each plotted value of the series of subject s at year y is the sum
\* of entry_count over the rows of s, y and the characteristic in range,
\* and is non-negative; rows of other subjects do not contribute.
C4_PointsAreSums ==
    ChartReturned =>
        \A k \in DOMAIN response.figure.data :
            LET trace == response.figure.data[k]
                s == request.subjects.items[k]
            IN  /\ Len(trace.x) = Len(trace.y)
                /\ \A j \in DOMAIN trace.x :
                    /\ trace.y[j] = SumOfEntries(RowsOf(s, trace.x[j]))
                    /\ trace.y[j] >= 0

\* a point that sums two rows of its subject
C4_Witness ==
    /\ ChartReturned
    /\ \E k \in DOMAIN response.figure.data : \E j \in DOMAIN response.figure.data[k].x :
        /\ Cardinality(RowsOf(request.subjects.items[k], response.figure.data[k].x[j])) = 2
        /\ response.figure.data[k].y[j] > 0

OtherType == IF request.indicator_type = "percentage" THEN "absolute" ELSE "percentage"

\* the table callback run on the same filter with the other indicator type
OtherTable ==
    update_table(df_table, request.start_date, request.end_date, OtherType,
                 request.characteristic, request.subjects).out

Indicators(data) == [r \in DOMAIN data |-> data[r]["Indicator"]]

\* C5: on the same filter, percentage and absolute give the same year
\* columns and the same entry_count row; only the six grade-band rows
\* differ, perc_* in the one and abs_* in the other.
C5_ModesShareYears ==
    TableReturned =>
        LET perc == IF request.indicator_type = "percentage" THEN response ELSE OtherTable
            abs == IF request.indicator_type = "percentage" THEN OtherTable ELSE response
        IN  /\ perc.columns = abs.columns
            /\ perc.data[1] = abs.data[1]
            /\ perc.data[1]["Indicator"] = "entry_count"
            /\ Len(perc.data) = 7 /\ Len(abs.data) = 7
            /\ \A r \in 2..7 :
                /\ perc.data[r]["Indicator"] = percentage_columns[r - 1]
                /\ abs.data[r]["Indicator"] = abs_columns[r - 1]
                /\ perc.data[r]["Indicator"] # abs.data[r]["Indicator"]
                /\ DOMAIN perc.data[r] = DOMAIN abs.data[r]

\* an absolute-mode table with a year column whose grade-band cell differs
\* from the percentage-mode cell
C5_Witness ==
    /\ TableReturned
    /\ request.indicator_type = "absolute"
    /\ \E name \in YearColumns : response.data[2][name] # OtherTable.data[2][name]

\* the text of the CSV cell behind prepared row i, column col
CsvCell(i, col) == csv[i][col]

IsNumeral(cell) == cell # <<>> /\ \A k \in DOMAIN cell : cell[k] \in Range(DigitChars)

\* C6: after preparation, in every row and for every grade band, abs is
\* missing exactly when perc is missing, abs * 100 = perc * entry_count
\* when perc is present, and a cell that is no numeral has become missing.
C6_AbsFromPerc ==
    pc = "serving" =>
        /\ Len(df_table) = Len(csv)
        /\ \A i \in DOMAIN df_table : \A k \in DOMAIN percentage_columns :
            LET perc == df_table[i][percentage_columns[k]]
                abs == df_table[i][abs_columns[k]]
                entry_count == df_table[i]["entry_count"]
            IN  /\ IsNaN(abs) <=> IsNaN(perc)
                /\ ~IsNaN(perc) =>
                    abs.num * 100 * perc.den = perc.num * entry_count * abs.den
                /\ ~IsNumeral(CsvCell(i, percentage_columns[k])) => IsNaN(perc)
                /\ IsNumeral(CsvCell(i, percentage_columns[k])) => ~IsNaN(perc)

\* a prepared row with a percentage coerced to missing and another
\* percentage whose absolute value is not a whole number
C6_Witness ==
    /\ pc = "serving"
    /\ \E i \in DOMAIN df_table : \E k, l \in DOMAIN percentage_columns :
        /\ CsvCell(i, percentage_columns[k]) = <<"z">>
        /\ IsNaN(df_table[i][abs_columns[k]])
        /\ ~IsNaN(df_table[i][abs_columns[l]])
        /\ df_table[i][abs_columns[l]].den > 1

\* what the request in flight returns on a frame
Replayed(prepared) ==
    IF request.op = "update_table"
    THEN update_table(prepared, request.start_date, request.end_date,
                      request.indicator_type, request.characteristic,
                      request.subjects).out
    ELSE update_line_chart(prepared, request.start_date, request.end_date,
                           request.subjects, request.characteristic).out

\* C7: after any sequence of callbacks df_table is the frame preparation
\* produced, and the response in flight is what the same call returns on
\* that frame.
C7_FrameUnchanged ==
    pc = "serving" =>
        /\ df_table = Prepare(csv)
        /\ request # NoRequest => response = Replayed(df_table)

\* a table callback in flight whose filter dropped some rows and kept others
C7_Witness ==
    /\ TableReturned
    /\ Matching # {}
    /\ Matching # DOMAIN df_table

\* C8: a returned table has the seven indicator rows entry_count, A*,
\* A*-A, A*-B, A*-C, A*-D, A*-E in this order (the abs_ column line 25
\* derives from each perc_ column in absolute mode), also when no row
\* matches, and its column names are "Indicator" and years rendered as
\* strings, the same in the data and in the descriptors.
C8_SevenIndicatorsInOrder ==
    TableReturned =>
        /\ Indicators(response.data) =
             IF request.indicator_type = "percentage"
             THEN <<"entry_count",
                    "perc_astar_grade_achieved", "perc_astar_a_grade_achieved",
                    "perc_astar_b_grade_achieved", "perc_astar_c_grade_achieved",
                    "perc_astar_d_grade_achieved", "perc_astar_e_grade_achieved">>
             ELSE <<"entry_count">> \o
                    [k \in 1..6 |-> AbsColName(percentage_columns[k])]
        /\ Cardinality(Range(abs_columns) \cup Range(percentage_columns)) = 12
        /\ response.columns[1].name = "Indicator"
        /\ \A k \in DOMAIN response.columns :
            /\ response.columns[k].id = response.columns[k].name
            /\ \/ response.columns[k].name = "Indicator"
               \/ \E y \in MatchingYears : response.columns[k].name = ToString(y)
        /\ \A r \in DOMAIN response.data :
                DOMAIN response.data[r] = {response.columns[k].name : k \in DOMAIN response.columns}

\* an absolute-mode table whose filter matches no row
C8_Witness ==
    /\ TableReturned
    /\ request.indicator_type = "absolute"
    /\ Matching = {}
    /\ df_table # <<>>
    /\ Len(response.data) = 7

\* C9: the chart has one series per element of the subjects argument, in
\* argument order, labelled "{subject} ({characteristic})"; the years of a
\* series ascend strictly and are exactly the years with a matching row of
\* its subject.
C9_OneSeriesPerSubject ==
    ChartReturned =>
        /\ Len(response.figure.data) = Len(request.subjects.items)
        /\ \A k \in DOMAIN response.figure.data :
            LET trace == response.figure.data[k]
                s == request.subjects.items[k]
            IN  /\ trace.name = s \o " (" \o request.characteristic \o ")"
                /\ \A j \in 1..(Len(trace.x) - 1) : trace.x[j] < trace.x[j + 1]
                /\ Range(trace.x) = {y \in YearArgs : RowsOf(s, y) # {}}

\* two series, the first with no point, the second with two points
C9_Witness ==
    /\ ChartReturned
    /\ Len(response.figure.data) = 2
    /\ response.figure.data[1].x = <<>>
    /\ Len(response.figure.data[2].x) = 2

\* C10 (as claimed): for a single value as for a list, both callbacks
\* select the rows of the filter predicate: neither raises, the table's
\* year columns and the chart's plotted years are the years of those rows.
C10_SameRowsSelected ==
    request # NoRequest =>
        /\ ~response.raised
        /\ request.op = "update_table" =>
                YearColumns = {ToString(y) : y \in MatchingYears}
        /\ request.op = "update_line_chart" =>
                UNION {Range(response.figure.data[k].x) : k \in DOMAIN response.figure.data}
                    = MatchingYears

=============================================================================
